---------------------------- MODULE Spec2Model ----------------------------
(***************************************************************************)
(* A model of bank2qif.py: the field normalizers, the transaction model,   *)
(* the statement importers and the QIF writer.                             *)
(*                                                                         *)
(* Text is a sequence of one-character strings.  Characters outside ASCII  *)
(* are written by their ASCII base letter (the captions of the statements  *)
(* are compared only for equality, so the transliteration is one to one).  *)
(* A number is a decimal value sign * m / 10^e kept in lowest terms, with  *)
(* the sign of a zero kept as a float keeps it.                            *)
(*                                                                         *)
(* A statement is the sequence of its lines (or csv rows) as decoded text: *)
(* opening and decoding the file are outside the model.  Where the outcome *)
(* of a step depends on the interpreter version, the step has every        *)
(* outcome.                                                                *)
(***************************************************************************)
EXTENDS Integers, Sequences, FiniteSets, TLC

VARIABLES
    importer,   \* the importer class chosen by its name (IMPORTERS[args.type])
    input,      \* the statement: the lines (or csv rows) of the input file
    pos,        \* number of lines (rows) the importer has read
    pc,         \* where the conversion stands: start, pull, done, error
    items,      \* items / processing_data: the header has been seen
    year,       \* rb: the year found in the preamble
    delim_counter, \* rb: header delimiters still to read
    pending,    \* the transaction yielded to write_qif and not written yet
    yielded,    \* every transaction the importer has yielded, in order
    qif,        \* the lines written to the output file
    err,        \* the exception that ended the conversion
    arg,        \* the argument a pure function is applied to
    ret,        \* its result
    transaction_data \* csob: the keyed record being collected, or None

vars == <<importer, input, pos, pc, items, year, delim_counter, pending,
          yielded, qif, err, arg, ret, transaction_data>>

-----------------------------------------------------------------------------
(* Bounds of the model *)

\* longest text given to normalize_num
MaxNumLen == 4

\* most transactions in a sequence handed to write_qif directly
MaxTrans == 2

\* most splits of one of those transactions
MaxSplits == 2

\* most lines of a fio statement
MaxLines == 3

\* most rows of a unicredit, zuno or airbank statement
MaxRows == 4

-----------------------------------------------------------------------------
(* Text *)

Whitespace == {" ", "\t", "\n"}
Digits == {"0", "1", "2", "3", "4", "5", "6", "7", "8", "9"}

\* None, as the value of a text attribute
NoneVal == <<"None">>

\* Python's truth of a text attribute: neither None nor empty
Truthy(t) == t # NoneVal /\ t # <<>>

DigitVal(c) ==
    CASE c = "0" -> 0 [] c = "1" -> 1 [] c = "2" -> 2 [] c = "3" -> 3
      [] c = "4" -> 4 [] c = "5" -> 5 [] c = "6" -> 6 [] c = "7" -> 7
      [] c = "8" -> 8 [] c = "9" -> 9

DigitChar(d) ==
    CASE d = 0 -> "0" [] d = 1 -> "1" [] d = 2 -> "2" [] d = 3 -> "3"
      [] d = 4 -> "4" [] d = 5 -> "5" [] d = 6 -> "6" [] d = 7 -> "7"
      [] d = 8 -> "8" [] d = 9 -> "9"

SetMin(S) == CHOOSE x \in S : \A y \in S : x <= y
SetMax(S) == CHOOSE x \in S : \A y \in S : x >= y

\* the k-th smallest element of S
KthOf(S, k) == CHOOSE x \in S : Cardinality({y \in S : y <= x}) = k

\* the characters of t at the positions in keep, in order
Pick(t, keep) ==
    LET F[i \in 0..Len(t)] ==
            IF i = 0 THEN <<>>
            ELSE IF i \in keep THEN Append(F[i - 1], t[i]) ELSE F[i - 1]
    IN F[Len(t)]

\* str.replace(a, b) for single characters a and b
Replace(t, a, b) == [i \in 1..Len(t) |-> IF t[i] = a THEN b ELSE t[i]]

\* str.replace(a, '') for a single character a
Remove(t, a) == Pick(t, {i \in 1..Len(t) : t[i] # a})

\* str.strip()
Strip(t) ==
    LET idx == {i \in 1..Len(t) : t[i] \notin Whitespace}
    IN IF idx = {} THEN <<>> ELSE SubSeq(t, SetMin(idx), SetMax(idx))

\* str.startswith(prefix)
StartsWith(t, prefix) ==
    Len(t) >= Len(prefix) /\ SubSeq(t, 1, Len(prefix)) = prefix

\* re.sub(multispace_re, " ", t): every run of whitespace becomes one space
CollapseSpace(t) ==
    LET keep == {i \in 1..Len(t) :
                    t[i] \notin Whitespace \/ i = 1 \/ t[i - 1] \notin Whitespace}
        one == [i \in 1..Len(t) |-> IF t[i] \in Whitespace THEN " " ELSE t[i]]
    IN Pick(one, keep)

normalize_field(text) ==
    LET r == CollapseSpace(text)
    IN Strip(Remove(Remove(r, "\""), "'"))

-----------------------------------------------------------------------------
(* Numbers *)

RECURSIVE Pow10(_)
Pow10(n) == IF n = 0 THEN 1 ELSE 10 * Pow10(n - 1)

NoneNum == [kind |-> "none", neg |-> FALSE, m |-> 0, e |-> 0]
ErrNum == [kind |-> "err", neg |-> FALSE, m |-> 0, e |-> 0]

\* m / 10^e in lowest terms
RECURSIVE Canon(_, _, _)
Canon(neg, m, e) ==
    IF e > 0 /\ m % 10 = 0 THEN Canon(neg, m \div 10, e - 1)
    ELSE [kind |-> "num", neg |-> neg, m |-> m, e |-> e]

\* == of two floats: the sign of a zero does not count
NumEq(a, b) ==
    /\ a.kind = "num" /\ b.kind = "num"
    /\ a.m = b.m /\ a.e = b.e
    /\ (a.m = 0 \/ a.neg = b.neg)

\* int() of a text of digits
ParseInt(t) ==
    LET F[i \in 0..Len(t)] ==
            IF i = 0 THEN 0 ELSE 10 * F[i - 1] + DigitVal(t[i])
    IN F[Len(t)]

IsDigits(t) == Len(t) > 0 /\ \A i \in 1..Len(t) : t[i] \in Digits

\* float() of a text over the digits, the point and the signs: an optional
\* sign, then digits with at most one point and at least one digit;
\* ValueError (ErrNum) for anything else
ParseFloat(t) ==
    LET signed == Len(t) > 0 /\ t[1] \in {"-", "+"}
        body == IF signed THEN Tail(t) ELSE t
        points == {i \in 1..Len(body) : body[i] = "."}
        digits == Remove(body, ".")
    IN IF /\ Cardinality(points) <= 1
          /\ IsDigits(digits)
       THEN Canon(signed /\ t[1] = "-", ParseInt(digits),
                  IF points = {} THEN 0 ELSE Len(body) - SetMin(points))
       ELSE ErrNum

\* a plausible slip: the embedded spaces are not removed
normalize_num_keeps_spaces(text) ==
    LET t == Strip(Replace(text, ",", "."))
    IN IF t = <<>> THEN NoneNum ELSE ParseFloat(t)

normalize_num(text) ==
    LET t == Strip(Remove(Replace(text, ",", "."), " "))
    IN IF t = <<>> THEN NoneNum ELSE ParseFloat(t)


-----------------------------------------------------------------------------
(* Numbers: sum and "%.2f" *)

\* the value of n times 10^scale, signed (scale at least n.e)
Signed(n, scale) == (IF n.neg THEN -1 ELSE 1) * n.m * Pow10(scale - n.e)

\* a + b of two floats; a zero sum is -0.0 only when both are -0.0
NumAdd(a, b) ==
    LET scale == IF a.e > b.e THEN a.e ELSE b.e
        total == Signed(a, scale) + Signed(b, scale)
    IN IF total = 0 THEN Canon(a.neg /\ b.neg, 0, 0)
       ELSE IF total < 0 THEN Canon(TRUE, -total, scale)
       ELSE Canon(FALSE, total, scale)

Zero == Canon(FALSE, 0, 0)

\* str() of a natural number
RECURSIVE IntToText(_)
IntToText(n) ==
    IF n < 10 THEN <<DigitChar(n)>>
    ELSE Append(IntToText(n \div 10), DigitChar(n % 10))

\* the number of cents nearest to |n|.  A value exactly half way between
\* two cents is rounded to the even one here; the float nearest to such a
\* decimal decides in the program, and the inputs of the model avoid them.
Cents(n) ==
    LET den == Pow10(n.e)
        a == n.m * 100
        q == a \div den
        r == a % den
    IN IF 2 * r > den THEN q + 1
       ELSE IF 2 * r < den THEN q
       ELSE IF q % 2 = 0 THEN q ELSE q + 1

\* "%.2f" % n
Fmt2(n) ==
    LET c == Cents(n)
    IN (IF n.neg THEN <<"-">> ELSE <<>>)
       \o IntToText(c \div 100) \o <<".">>
       \o <<DigitChar((c % 100) \div 10), DigitChar(c % 10)>>

-----------------------------------------------------------------------------
(* The transaction model *)

SplitItem(amount, message) == [amount |-> amount, message |-> message]

TransactionData(date, amount, destination, message, ident) ==
    [date |-> date, amount |-> amount, destination |-> destination,
     message |-> Strip(message), ident |-> ident, splits |-> <<>>]

add_split(t, split) == [t EXCEPT !.splits = Append(@, split)]

\* sum(s.amount for s in splits): starts from 0
SumAmounts(splits) ==
    LET F[i \in 0..Len(splits)] ==
            IF i = 0 THEN Zero ELSE NumAdd(F[i - 1], splits[i].amount)
    IN F[Len(splits)]

\* a plausible slip: the total is the sum of the split amounts as written,
\* each rounded to cents first
get_amount_rounded_first(t) ==
    LET F[i \in 0..Len(t.splits)] ==
            IF i = 0 THEN Zero
            ELSE NumAdd(F[i - 1],
                        Canon(t.splits[i].amount.neg,
                              Cents(t.splits[i].amount), 2))
    IN IF t.splits # <<>> THEN F[Len(t.splits)] ELSE t.amount

get_amount(t) ==
    IF t.splits # <<>> THEN SumAmounts(t.splits) ELSE t.amount

-----------------------------------------------------------------------------
(* write_qif *)

TypeLine == <<"!", "T", "y", "p", "e", ":", "B", "a", "n", "k">>
EndLine == <<"^">>

\* the lines written for the splits of a transaction
SplitLines(splits) ==
    LET F[i \in 0..Len(splits)] ==
            IF i = 0 THEN <<>>
            ELSE F[i - 1]
                 \o (IF Truthy(splits[i].message)
                     THEN <<(<<"E">> \o splits[i].message)>> ELSE <<>>)
                 \o <<(<<"$">> \o Fmt2(splits[i].amount))>>
    IN F[Len(splits)]

\* a plausible slip: the destination is written before the message
Block_destination_first(t) ==
    <<(<<"D">> \o IntToText(t.date.m) \o <<"/">> \o IntToText(t.date.d)
         \o <<"/">> \o IntToText(t.date.y)),
      (<<"T">> \o Fmt2(get_amount(t)))>>
    \o (IF Truthy(t.ident) THEN <<(<<"#">> \o t.ident)>> ELSE <<>>)
    \o (IF Truthy(t.destination) THEN <<(<<"P">> \o t.destination)>> ELSE <<>>)
    \o (IF Truthy(t.message) THEN <<(<<"M">> \o t.message)>> ELSE <<>>)
    \o (IF Len(t.splits) > 1 THEN SplitLines(t.splits) ELSE <<>>)
    \o <<EndLine>>

\* the lines written for one transaction
Block(t) ==
    <<(<<"D">> \o IntToText(t.date.m) \o <<"/">> \o IntToText(t.date.d)
         \o <<"/">> \o IntToText(t.date.y)),
      (<<"T">> \o Fmt2(get_amount(t)))>>
    \o (IF Truthy(t.ident) THEN <<(<<"#">> \o t.ident)>> ELSE <<>>)
    \o (IF Truthy(t.message) THEN <<(<<"M">> \o t.message)>> ELSE <<>>)
    \o (IF Truthy(t.destination) THEN <<(<<"P">> \o t.destination)>> ELSE <<>>)
    \o (IF Len(t.splits) > 1 THEN SplitLines(t.splits) ELSE <<>>)
    \o <<EndLine>>

\* write_qif opens the output and writes the type line before it asks the
\* importer for anything
WriteHeader ==
    /\ pc = "start"
    /\ qif' = <<TypeLine>>
    /\ pc' = "pull"
    /\ UNCHANGED <<importer, input, pos, items, year, delim_counter,
                   pending, yielded, err, arg, ret,
                   transaction_data>>

\* a plausible slip: the new block goes in front of the blocks written
WriteBlock_in_front ==
    /\ pc = "pull"
    /\ pending # <<>>
    /\ qif' = <<qif[1]>> \o Block(pending[1]) \o Tail(qif)
    /\ pending' = <<>>
    /\ UNCHANGED <<importer, input, pos, pc, items, year, delim_counter,
                   yielded, err, arg, ret,
                   transaction_data>>

\* the body of write_qif's loop, for the transaction just received
WriteBlock ==
    /\ pc = "pull"
    /\ pending # <<>>
    /\ qif' = qif \o Block(pending[1])
    /\ pending' = <<>>
    /\ UNCHANGED <<importer, input, pos, pc, items, year, delim_counter,
                   yielded, err, arg, ret,
                   transaction_data>>

\* the importer hands transaction t to write_qif
Yield(t) ==
    /\ pending' = <<t>>
    /\ yielded' = Append(yielded, t)

\* the importer is at work: write_qif has asked for the next transaction
Pulling(name) == importer = name /\ pc = "pull" /\ pending = <<>>

\* an exception leaves the importer and write_qif
Raise(type, line) ==
    /\ pc' = "error"
    /\ err' = [type |-> type, line |-> line]

-----------------------------------------------------------------------------
(* write_qif handed a sequence of transactions directly *)

ListDate == [d |-> 5, m |-> 11, y |-> 2011]

\* split amounts 0.004 and 1.006, the first without a memo.  All amounts
\* of the model are a whole number of 0.002, so that no sum is half a cent.
ListSplitItems ==
    {SplitItem(Canon(FALSE, 4, 3), NoneVal),
     SplitItem(Canon(FALSE, 1006, 3), <<"e">>)}

\* transactions with a plain amount: every optional field absent or
\* present, and one with an empty identifier and an empty destination;
\* and transactions with splits
ListTransactions ==
    {TransactionData(ListDate, Canon(FALSE, 1500, 0), p, m, i) :
        i \in {NoneVal, <<"7">>}, m \in {<<>>, <<"m">>},
        p \in {NoneVal, <<"p">>}}
    \cup
    {TransactionData(ListDate, Canon(TRUE, 25, 1), <<>>, <<"m">>, <<>>)}
    \cup
    {[TransactionData(ListDate, NoneNum, NoneVal, <<"m">>, NoneVal)
         EXCEPT !.splits = sp] :
        sp \in UNION {[1..k -> ListSplitItems] : k \in 1..MaxSplits}}

InitList ==
    /\ importer = "transactions"
    /\ input \in UNION {[1..k -> ListTransactions] : k \in 0..MaxTrans}

ListNext ==
    /\ Pulling("transactions")
    /\ pos < Len(input)
    /\ pos' = pos + 1
    /\ Yield(input[pos + 1])
    /\ UNCHANGED <<importer, input, pc, items, year, delim_counter, qif,
                   err, arg, ret,
                   transaction_data>>

ListEnd ==
    /\ Pulling("transactions")
    /\ pos = Len(input)
    /\ pc' = "done"
    /\ UNCHANGED <<importer, input, pos, items, year, delim_counter,
                   pending, yielded, qif, err, arg, ret,
                   transaction_data>>

-----------------------------------------------------------------------------
(* Dates *)

\* datetime.date(y, m, d) accepts the date
ValidDate(y, m, d) ==
    LET leap == (y % 4 = 0 /\ y % 100 # 0) \/ y % 400 = 0
        days == IF m \in {4, 6, 9, 11} THEN 30
                ELSE IF m = 2 THEN (IF leap THEN 29 ELSE 28) ELSE 31
    IN /\ y >= 1 /\ y <= 9999
       /\ m >= 1 /\ m <= 12
       /\ d >= 1 /\ d <= days

\* str.lstrip('0')
LStripZeros(t) ==
    LET idx == {i \in 1..Len(t) : t[i] # "0"}
    IN IF idx = {} THEN <<>> ELSE SubSeq(t, SetMin(idx), Len(t))

-----------------------------------------------------------------------------
(* FioImport: fixed-width lines.  A line is the record of its fields, each *)
(* named by what the importer reads from those columns.                    *)

\* line[0:3], line[19:35], line[35:48], line[48:60], line[60],
\* line[71:81], line[97:117], line[122:128]
FioLine(tag, account, ident, amount, ttype, bank, message, ddmmyy) ==
    [tag |-> tag, account |-> account, ident |-> ident, amount |-> amount,
     ttype |-> ttype, bank |-> bank, message |-> message, ddmmyy |-> ddmmyy]

FioAccount == <<"0", "0", "0", "0", "0", "0", "0", "0", "0", "0", "1", "2", "3", "4", "5", "6">>
FioNoAccount == <<"0", "0", "0", "0", "0", "0", "0", "0", "0", "0", "0", "0", "0", "0", "0", "0">>
FioIdent == <<"0", "0", "0", "0", "0", "0", "0", "0", "0", "0", "0", "4", "2">>
FioBank == <<"0", "0", "0", "0", "0", "0", "0", "8", "0", "0">>
FioMessage == <<"P", "l", "a", "t", "b", "a", " ", " ", " ", " ", " ", " ", " ", " ", " ", " ", " ", " ", " ", " ">>
FioDate == <<"0", "5", "1", "1", "1", "1">>

\* the scaled amounts 150000 and 250
Fio150000 == <<"0", "0", "0", "0", "0", "0", "1", "5", "0", "0", "0", "0">>
Fio250 == <<"0", "0", "0", "0", "0", "0", "0", "0", "0", "2", "5", "0">>

FioTransactionLine(amount, ttype, account) ==
    FioLine(<<"0", "7", "5">>, account, FioIdent, amount, ttype, FioBank,
            FioMessage, FioDate)

\* the account line, transaction lines of every type digit, a transaction
\* line whose type column is blank, and a line of another record type
FioLines ==
    {FioLine(<<"0", "7", "4">>, FioAccount, FioIdent, Fio250, " ", FioBank,
             FioMessage, FioDate)}
    \cup {FioTransactionLine(Fio150000, tt, FioAccount) :
             tt \in {"1", "2", "4", "5"}}
    \cup {FioTransactionLine(Fio250, "1", FioNoAccount),
          FioTransactionLine(Fio250, " ", FioAccount)}
    \cup {FioLine(<<"0", "7", "6">>, FioAccount, FioIdent, Fio250, "2",
                  FioBank, FioMessage, FioDate)}

InitFio ==
    /\ importer = "fio"
    /\ input \in UNION {[1..k -> FioLines] : k \in 0..MaxLines}

\* a plausible slip: the line number counts from 0
BadRecordTypeException_from_zero(line_no) ==
    Raise("BadRecordTypeException", line_no - 1)

BadRecordTypeException(line_no) ==
    Raise("BadRecordTypeException", line_no)

\* the type digit, the amount and the date of the line can be read
FioParses(line) ==
    /\ line.ttype \in Digits
    /\ ParseFloat(line.amount).kind = "num"
    /\ IsDigits(line.ddmmyy)
    /\ ValidDate(2000 + ParseInt(SubSeq(line.ddmmyy, 5, 6)),
                 ParseInt(SubSeq(line.ddmmyy, 3, 4)),
                 ParseInt(SubSeq(line.ddmmyy, 1, 2)))

\* a plausible slip: the amount is negated for the type digits 1 and 2
FioAmount_debit_1_2(line) ==
    LET scaled == ParseFloat(line.amount)
        tamount == Canon(scaled.neg, scaled.m, scaled.e + 2)
    IN IF DigitVal(line.ttype) \in {1, 2}
       THEN [tamount EXCEPT !.neg = ~@] ELSE tamount

\* float(line[48:60]) / 100.0, negated for the type digits 1 and 5
FioAmount(line) ==
    LET scaled == ParseFloat(line.amount)
        tamount == Canon(scaled.neg, scaled.m, scaled.e + 2)
    IN IF DigitVal(line.ttype) \in {1, 5}
       THEN [tamount EXCEPT !.neg = ~@] ELSE tamount

\* the transaction of a line that parses
FioTransaction(line) ==
    LET tbank == LStripZeros(line.bank)
        tbankcode == SubSeq(tbank, 1, IF Len(tbank) < 4 THEN Len(tbank) ELSE 4)
        tdestacc == LStripZeros(line.account)
    IN TransactionData(
        [d |-> ParseInt(SubSeq(line.ddmmyy, 1, 2)),
         m |-> ParseInt(SubSeq(line.ddmmyy, 3, 4)),
         y |-> 2000 + ParseInt(SubSeq(line.ddmmyy, 5, 6))],
        FioAmount(line),
        IF tdestacc # <<>> THEN tdestacc \o <<"/">> \o tbankcode
        ELSE NoneVal,
        Strip(line.message), line.ident)

\* the first step of the generator: readline() and the check of the
\* account line (readline() of an empty file returns '')
FioFirstLine ==
    /\ Pulling("fio")
    /\ pos = 0
    /\ IF input # <<>> /\ input[1].tag = <<"0", "7", "4">>
       THEN /\ pos' = 1
            /\ UNCHANGED <<pc, err>>
       ELSE /\ BadRecordTypeException(1)
            /\ pos' = IF input = <<>> THEN 0 ELSE 1
    /\ UNCHANGED <<importer, input, items, year, delim_counter, pending,
                   yielded, qif, arg, ret,
                   transaction_data>>

\* one turn of the loop over the following lines
FioNextLine ==
    /\ Pulling("fio")
    /\ pos >= 1 /\ pos < Len(input)
    /\ pos' = pos + 1
    /\ LET line_no == pos + 1
           line == input[pos + 1]
       IN IF line.tag # <<"0", "7", "5">>
          THEN /\ BadRecordTypeException(line_no)
               /\ UNCHANGED <<pending, yielded>>
          ELSE IF ~ FioParses(line)
          THEN /\ Raise("ValueError", 0)
               /\ UNCHANGED <<pending, yielded>>
          ELSE /\ Yield(FioTransaction(line))
               /\ UNCHANGED <<pc, err>>
    /\ UNCHANGED <<importer, input, items, year, delim_counter, qif, arg, ret,
                   transaction_data>>

\* the lines are exhausted
FioEnd ==
    /\ Pulling("fio")
    /\ pos >= 1 /\ pos = Len(input)
    /\ pc' = "done"
    /\ UNCHANGED <<importer, input, pos, items, year, delim_counter,
                   pending, yielded, qif, err, arg, ret,
                   transaction_data>>

-----------------------------------------------------------------------------
(* csv rows *)

\* row[k], the cells counted from 0
Cell(row, k) == row[k + 1]

\* str.split(sep) for a single character sep
Split(t, sep) ==
    LET seps == {i \in 1..Len(t) : t[i] = sep}
        n == Cardinality(seps)
    IN [k \in 1..(n + 1) |->
          SubSeq(t, IF k = 1 THEN 1 ELSE KthOf(seps, k - 1) + 1,
                 IF k = n + 1 THEN Len(t) ELSE KthOf(seps, k) - 1)]

\* d, m, y = parts; date(int(y), int(m), int(d)) raises nothing
DateParses(parts, di, mi, yi) ==
    /\ Len(parts) = 3
    /\ \A i \in 1..3 : IsDigits(parts[i])
    /\ ValidDate(ParseInt(parts[yi]), ParseInt(parts[mi]), ParseInt(parts[di]))

DateOf(parts, di, mi, yi) ==
    [d |-> ParseInt(parts[di]), m |-> ParseInt(parts[mi]),
     y |-> ParseInt(parts[yi])]

\* float(normalize_num(text)) raises nothing
AmountParses(text) == normalize_num(text).kind = "num"

\* the exception of float(normalize_num(text)): float(None) is a TypeError
AmountError(text) ==
    IF normalize_num(text).kind = "none" THEN "TypeError" ELSE "ValueError"

\* a row of the preamble of a statement
InfoRow == <<<<"V", "y", "p", "i", "s">>>>

-----------------------------------------------------------------------------
(* UnicreditImport *)

\* u"Ucet", the caption of the first cell of the header row
UnicreditCaption == <<"U", "c", "e", "t">>

\* u"PLATBA PLATEBNI KARTOU"
CardPayment ==
    <<"P", "L", "A", "T", "B", "A", " ", "P", "L", "A", "T", "E", "B", "N",
      "I", " ", "K", "A", "R", "T", "O", "U">>

\* a transfer to an account
UnicreditTransfer ==
    <<<<"1", "0", "0", "2", "0", "0", "3", "0", "0", "4">>,
      <<"-", "1", "2", ",", "5", "0">>,
      <<>>,
      <<"2", "0", "1", "1", "-", "1", "1", "-", "0", "5">>,
      <<>>,
      <<"0", "8", "0", "0">>,
      <<"C", "S">>,
      <<"P", "r", "a", "h", "a">>,
      <<"1", "2", "3">>,
      <<"J", "a", "n">>,
      <<>>,
      <<>>,
      <<>>,
      <<"P", "R", "E", "V", "O", "D">>,
      <<"n", "a", "j", "e", "m">>,
      <<>>,
      <<>>,
      <<>>,
      <<>>>>

\* a card payment: no account, the place in the details
UnicreditCard ==
    <<<<"1", "0", "0", "2", "0", "0", "3", "0", "0", "4">>,
      <<"-", "3", ",", "2", "0">>,
      <<>>,
      <<"2", "0", "1", "1", "-", "1", "1", "-", "0", "6">>,
      <<>>,
      <<>>,
      <<>>,
      <<>>,
      <<>>,
      <<" ">>,
      <<>>,
      <<>>,
      <<>>,
      <<"P", "L", "A", "T", "B", "A", " ", "P", "L", "A", "T", "E", "B", "N", "I", " ", "K", "A", "R", "T", "O", "U">>,
      <<"4", "5", "1", "1">>,
      <<"E", "S", "H", "O", "P">>,
      <<>>,
      <<" ">>,
      <<>>>>

\* a row without an amount
UnicreditNoAmount ==
    <<<<"1", "0", "0", "2", "0", "0", "3", "0", "0", "4">>,
      <<>>,
      <<>>,
      <<"2", "0", "1", "1", "-", "1", "1", "-", "0", "7">>,
      <<>>,
      <<"0", "8", "0", "0">>,
      <<"C", "S">>,
      <<>>,
      <<"1", "2", "3">>,
      <<"J", "a", "n">>,
      <<>>,
      <<>>,
      <<>>,
      <<"P", "R", "E", "V", "O", "D">>,
      <<>>,
      <<>>,
      <<>>,
      <<>>,
      <<>>>>

UnicreditRows ==
    {<<>>, <<UnicreditCaption>>, InfoRow, UnicreditTransfer, UnicreditCard,
     UnicreditNoAmount}

InitUnicredit ==
    /\ importer = "unicredit"
    /\ input \in UNION {[1..k -> UnicreditRows] : k \in 0..MaxRows}

\* the first and the last column of the transaction details
FirstDetail == 13
LastDetail == 18

\* the primary destination: the counterparty's account, when there is one
UnicreditAccountDest(row) ==
    LET bank_no == Cell(row, 5)
        bank_name == Strip(normalize_field(Cell(row, 6)) \o <<" ">>
                           \o normalize_field(Cell(row, 7)))
        account_number == normalize_field(Cell(row, 8))
        account_name == normalize_field(Cell(row, 9))
    IN IF account_number # <<>>
       THEN bank_name \o <<":", " ">> \o account_number \o <<"/">>
            \o bank_no \o <<" ">> \o account_name
       ELSE NoneVal

\* a plausible slip: the details are scanned from the first column up
UnicreditFallback_from_first(row) ==
    LET filled == {i \in FirstDetail..LastDetail :
                      normalize_field(Cell(row, i)) # <<>>}
    IN IF filled = {} THEN NoneVal
       ELSE normalize_field(Cell(row, SetMin(filled)))

\* for i in reversed(range(13, 19)): the first detail that is not empty
UnicreditFallback(row) ==
    LET RECURSIVE scan(_)
        scan(i) ==
            IF i < FirstDetail THEN NoneVal
            ELSE IF normalize_field(Cell(row, i)) # <<>>
                 THEN normalize_field(Cell(row, i)) ELSE scan(i - 1)
    IN scan(LastDetail)

\* tdest of a row
UnicreditDest(row) ==
    LET tdest == UnicreditAccountDest(row)
        t_type == Strip(Cell(row, FirstDetail))
    IN IF t_type = CardPayment /\ tdest = NoneVal
       THEN UnicreditFallback(row) ELSE tdest

\* the exception a row raises ("" for none), in the order of the loop body
UnicreditError(row) ==
    IF Len(row) < 4 THEN "IndexError"
    ELSE IF ~ DateParses(Split(Cell(row, 3), "-"), 3, 2, 1) THEN "ValueError"
    ELSE IF ~ AmountParses(Cell(row, 1)) THEN AmountError(Cell(row, 1))
    ELSE IF Len(row) < LastDetail + 1 THEN "IndexError"
    ELSE ""

UnicreditTransaction(row) ==
    TransactionData(
        DateOf(Split(Cell(row, 3), "-"), 3, 2, 1),
        normalize_num(Cell(row, 1)),
        UnicreditDest(row),
        normalize_field(Cell(row, 13) \o <<" ">> \o Cell(row, 14) \o <<" ">>
                        \o Cell(row, 15) \o <<" ">> \o Cell(row, 16)
                        \o <<" ">> \o Cell(row, 17) \o <<" ">>
                        \o Cell(row, 18)),
        NoneVal)

\* the row is the header row: its first cell is the caption
UnicreditHeader(row) == Len(row) > 0 /\ Cell(row, 0) = UnicreditCaption

\* a plausible slip: an empty row is not taken as the end
UnicreditEnds_never(row) == FALSE

\* the row ends the items: it is empty
UnicreditEnds(row) == Len(row) = 0

\* one turn of the loop over the rows
UnicreditNext ==
    /\ Pulling("unicredit")
    /\ pos < Len(input)
    /\ pos' = pos + 1
    /\ LET row == input[pos + 1]
       IN IF ~ items /\ UnicreditHeader(row)
          THEN /\ items' = TRUE
               /\ UNCHANGED <<pc, err, pending, yielded>>
          ELSE IF ~ items
          THEN UNCHANGED <<items, pc, err, pending, yielded>>
          ELSE IF UnicreditEnds(row)
          THEN /\ pc' = "done"
               /\ UNCHANGED <<items, err, pending, yielded>>
          ELSE IF UnicreditError(row) # ""
          THEN /\ Raise(UnicreditError(row), 0)
               /\ UNCHANGED <<items, pending, yielded>>
          ELSE /\ Yield(UnicreditTransaction(row))
               /\ UNCHANGED <<items, pc, err>>
    /\ UNCHANGED <<importer, input, year, delim_counter, qif, arg, ret,
                   transaction_data>>

\* the rows are exhausted
UnicreditEnd ==
    /\ Pulling("unicredit")
    /\ pos = Len(input)
    /\ pc' = "done"
    /\ UNCHANGED <<importer, input, pos, items, year, delim_counter,
                   pending, yielded, qif, err, arg, ret,
                   transaction_data>>

-----------------------------------------------------------------------------
(* ZunoImport *)

\* u"Datum transakcie:"
ZunoCaption ==
    <<"D", "a", "t", "u", "m", " ", "t", "r", "a", "n", "s", "a", "k", "c",
      "i", "e", ":">>

\* a payment from an account
ZunoPayment ==
    <<<<"5", ".", "1", "1", ".", "2", "0", "1", "1">>,
      <<>>,
      <<>>,
      <<"1", "2", "3">>,
      <<"0", "8", "0", "0">>,
      <<"N", "a", "j", "o", "m">>,
      <<"2", "5", "0", ",", "0", "0">>>>

\* a fee: no account
ZunoFee ==
    <<<<"6", ".", "1", "1", ".", "2", "0", "1", "1">>,
      <<>>,
      <<>>,
      <<>>,
      <<>>,
      <<"P", "o", "p", "l", "a", "t", "o", "k">>,
      <<"-", "3", ",", "2", "0">>>>

\* a row whose date has no year
ZunoBadDate ==
    <<<<"7", ".", "1", "1">>,
      <<>>,
      <<>>,
      <<"1", "2", "3">>,
      <<"0", "8", "0", "0">>,
      <<"N", "a", "j", "o", "m">>,
      <<"1", ",", "0", "0">>>>

ZunoRows ==
    {<<>>, <<ZunoCaption>>, InfoRow, ZunoPayment, ZunoFee, ZunoBadDate}

InitZuno ==
    /\ importer = "zuno"
    /\ input \in UNION {[1..k -> ZunoRows] : k \in 0..MaxRows}

ZunoError(row) ==
    IF ~ DateParses(Split(Cell(row, 0), "."), 1, 2, 3) THEN "ValueError"
    ELSE IF Len(row) < 7 THEN "IndexError"
    ELSE IF ~ AmountParses(Cell(row, 6)) THEN AmountError(Cell(row, 6))
    ELSE ""

ZunoTransaction(row) ==
    LET account_number == normalize_field(Cell(row, 3))
        bank_code == normalize_field(Cell(row, 4))
    IN TransactionData(
        DateOf(Split(Cell(row, 0), "."), 1, 2, 3),
        normalize_num(Cell(row, 6)),
        IF account_number # <<>>
        THEN Strip(account_number \o <<"/">> \o bank_code) ELSE NoneVal,
        normalize_field(Cell(row, 5)),
        NoneVal)

ZunoHeader(row) == Len(row) > 0 /\ Cell(row, 0) = ZunoCaption

\* the row ends the items: it has at most one cell
ZunoEnds(row) == Len(row) <= 1

ZunoNext ==
    /\ Pulling("zuno")
    /\ pos < Len(input)
    /\ pos' = pos + 1
    /\ LET row == input[pos + 1]
       IN IF ~ items /\ ZunoHeader(row)
          THEN /\ items' = TRUE
               /\ UNCHANGED <<pc, err, pending, yielded>>
          ELSE IF ~ items
          THEN UNCHANGED <<items, pc, err, pending, yielded>>
          ELSE IF ZunoEnds(row)
          THEN /\ pc' = "done"
               /\ UNCHANGED <<items, err, pending, yielded>>
          ELSE IF ZunoError(row) # ""
          THEN /\ Raise(ZunoError(row), 0)
               /\ UNCHANGED <<items, pending, yielded>>
          ELSE /\ Yield(ZunoTransaction(row))
               /\ UNCHANGED <<items, pc, err>>
    /\ UNCHANGED <<importer, input, year, delim_counter, qif, arg, ret,
                   transaction_data>>

ZunoEnd ==
    /\ Pulling("zuno")
    /\ pos = Len(input)
    /\ pc' = "done"
    /\ UNCHANGED <<importer, input, pos, items, year, delim_counter,
                   pending, yielded, qif, err, arg, ret,
                   transaction_data>>

-----------------------------------------------------------------------------
(* BankImporter with dirty_csv_iterator, as AirBankImport uses it.  A line *)
(* is the sequence of its cells (the text between the semicolons); the     *)
(* empty line has none.                                                    *)

\* headline_start = '"Datum provedeni"'
AirBankHeadline ==
    <<"\"", "D", "a", "t", "u", "m", " ", "p", "r", "o", "v", "e", "d",
      "e", "n", "i", "\"">>

AirBankAmount ==
    <<"\"", "C", "a", "s", "t", "k", "a", " ", "v", " ", "m", "e", "n",
      "e", " ", "u", "c", "t", "u", "\"">>

AirBankTransType ==
    <<"\"", "P", "o", "j", "m", "e", "n", "o", "v", "a", "n", "i", " ",
      "p", "r", "i", "k", "a", "z", "u", "\"">>

AirBankMessage ==
    <<"\"", "P", "o", "z", "n", "a", "m", "k", "a", " ", "k", " ", "p",
      "l", "a", "t", "b", "e", "\"">>

AirBankFromTo ==
    <<"\"", "N", "a", "z", "e", "v", " ", "u", "c", "t", "u", " ", "p",
      "r", "o", "t", "i", "s", "t", "r", "a", "n", "y", "\"">>

AirBankRecipient ==
    <<"\"", "C", "i", "s", "l", "o", " ", "u", "c", "t", "u", " ", "p",
      "r", "o", "t", "i", "s", "t", "r", "a", "n", "y", "\"">>

\* a column the importer has no name for
AirBankCategory ==
    <<"\"", "K", "a", "t", "e", "g", "o", "r", "i", "e", " ", "p", "l",
      "a", "t", "e", "b", "\"">>

FieldDate == <<"d", "a", "t", "e">>
FieldAmount == <<"a", "m", "o", "u", "n", "t">>
FieldTransType == <<"t", "r", "a", "n", "s", "_", "t", "y", "p", "e">>
FieldMessage == <<"m", "e", "s", "s", "a", "g", "e">>
FieldFromTo == <<"f", "r", "o", "m", "/", "t", "o">>
FieldRecipient == <<"r", "e", "c", "i", "p", "i", "e", "n", "t">>

\* 'Popis prikazce', the column KB statements have
FieldPayerDescription ==
    <<"P", "o", "p", "i", "s", " ", "p", "r", "i", "k", "a", "z", "c", "e">>

\* field_translation.get(h, h)
AirBankTranslation(h) ==
    CASE h = AirBankHeadline -> FieldDate
      [] h = AirBankAmount -> FieldAmount
      [] h = AirBankTransType -> FieldTransType
      [] h = AirBankMessage -> FieldMessage
      [] h = AirBankFromTo -> FieldFromTo
      [] h = AirBankRecipient -> FieldRecipient
      [] OTHER -> h

\* translated_headline
TranslateHeadline(line) ==
    [i \in 1..Len(line) |-> AirBankTranslation(line[i])]

\* the csv module's reading of a cell: the quotes around it are dropped
CsvCell(cell) ==
    IF Len(cell) >= 2 /\ cell[1] = "\"" /\ cell[Len(cell)] = "\""
    THEN SubSeq(cell, 2, Len(cell) - 1) ELSE cell

\* the header line of the statement
AirBankHeader ==
    <<AirBankHeadline, AirBankTransType, AirBankAmount, AirBankCategory,
      AirBankMessage, AirBankFromTo, AirBankRecipient>>

\* a payment, interest without any text but its name, a row without amount
AirBankPayment ==
    <<<<"0", "5", "/", "1", "1", "/", "2", "0", "1", "1">>,
      <<"N", "a", "j", "e", "m">>,
      <<"-", "1", "2", ",", "5", "0">>,
      <<"B", "y", "d", "l", "e", "n", "i">>,
      <<"l", "i", "s", "t", "o", "p", "a", "d">>,
      <<"J", "a", "n", " ", "N", "o", "v", "a", "k">>,
      <<"1", "2", "3", "/", "0", "8", "0", "0">>>>

AirBankInterest ==
    <<<<"0", "6", "/", "1", "1", "/", "2", "0", "1", "1">>,
      <<"U", "r", "o", "k">>,
      <<"0", ",", "4", "2">>,
      <<>>,
      <<>>,
      <<>>,
      <<>>>>

AirBankNoAmount ==
    <<<<"0", "7", "/", "1", "1", "/", "2", "0", "1", "1">>,
      <<"N", "a", "j", "e", "m">>,
      <<>>,
      <<>>,
      <<>>,
      <<>>,
      <<>>>>

AirBankLines ==
    {<<>>, AirBankHeader, InfoRow, AirBankPayment, AirBankInterest,
     AirBankNoAmount}

InitAirBank ==
    /\ importer = "airbank"
    /\ input \in UNION {[1..k -> AirBankLines] : k \in 0..MaxRows}

\* line.startswith(headline_start)
IsHeadline(line) == Len(line) > 0 /\ StartsWith(line[1], AirBankHeadline)

\* the fieldnames of the DictReader: the first line it is given, which is
\* the first headline of the file, translated
FieldNames ==
    LET h == SetMin({i \in 1..Len(input) : IsHeadline(input[i])})
        translated == TranslateHeadline(input[h])
    IN [i \in 1..Len(translated) |-> CsvCell(translated[i])]

HasField(key) == \E i \in 1..Len(FieldNames) : FieldNames[i] = key

\* row[key] of the keyed record made of the cells: None for a missing cell
Field(cells, key) ==
    LET i == SetMax({j \in 1..Len(FieldNames) : FieldNames[j] = key})
    IN IF i <= Len(cells) THEN CsvCell(cells[i]) ELSE NoneVal

\* tmessage, before the fallback to the payer's description
ComposedMessage(cells) ==
    Strip(normalize_field(Field(cells, FieldTransType)) \o <<" ">>
          \o normalize_field(Field(cells, FieldMessage)) \o <<" ">>
          \o normalize_field(Field(cells, FieldFromTo)) \o <<" ">>
          \o normalize_field(Field(cells, FieldRecipient)))

\* the exception the row raises in BankImporter.__iter__ ("" for none)
RowError(cells) ==
    IF ~ HasField(FieldDate) THEN "KeyError"
    ELSE IF Field(cells, FieldDate) = NoneVal THEN "AttributeError"
    ELSE IF ~ DateParses(Split(Field(cells, FieldDate), "/"), 1, 2, 3)
         THEN "ValueError"
    ELSE IF ~ HasField(FieldAmount) THEN "KeyError"
    ELSE IF Field(cells, FieldAmount) = NoneVal THEN "AttributeError"
    ELSE IF ~ AmountParses(Field(cells, FieldAmount))
         THEN AmountError(Field(cells, FieldAmount))
    ELSE IF \E k \in {FieldTransType, FieldMessage, FieldFromTo,
                      FieldRecipient} : ~ HasField(k) THEN "KeyError"
    ELSE IF \E k \in {FieldTransType, FieldMessage, FieldFromTo,
                      FieldRecipient} : Field(cells, k) = NoneVal
         THEN "TypeError"
    ELSE IF ComposedMessage(cells) = <<>> /\ ~ HasField(FieldPayerDescription)
         THEN "KeyError"
    ELSE ""

\* the transaction of a row that raises nothing
RowTransaction(cells) ==
    TransactionData(
        DateOf(Split(Field(cells, FieldDate), "/"), 1, 2, 3),
        normalize_num(Field(cells, FieldAmount)),
        NoneVal,
        IF ComposedMessage(cells) # <<>> THEN ComposedMessage(cells)
        ELSE normalize_field(Field(cells, FieldPayerDescription)),
        NoneVal)

\* one line of the file through dirty_csv_iterator, the DictReader and
\* BankImporter.__iter__
AirBankNext ==
    /\ Pulling("airbank")
    /\ pos < Len(input)
    /\ pos' = pos + 1
    /\ LET line == input[pos + 1]
           \* the line as dirty_csv_iterator yields it
           out == IF IsHeadline(line) THEN TranslateHeadline(line) ELSE line
       IN IF ~ items /\ IsHeadline(line)
          THEN \* the headline: the DictReader takes it as its fieldnames
               /\ items' = TRUE
               /\ UNCHANGED <<pc, err, pending, yielded>>
          ELSE IF ~ items
          THEN UNCHANGED <<items, pc, err, pending, yielded>>
          ELSE IF Len(line) = 0
          THEN \* raise StopIteration inside the generator
               /\ \/ \* Python up to 3.6: the generator ends
                     /\ pc' = "done"
                     /\ UNCHANGED err
                  \/ \* Python 3.7 and later (PEP 479)
                     Raise("RuntimeError", 0)
               /\ UNCHANGED <<items, pending, yielded>>
          ELSE IF RowError(out) # ""
          THEN /\ Raise(RowError(out), 0)
               /\ UNCHANGED <<items, pending, yielded>>
          ELSE /\ Yield(RowTransaction(out))
               /\ UNCHANGED <<items, pc, err>>
    /\ UNCHANGED <<importer, input, year, delim_counter, qif, arg, ret,
                   transaction_data>>

\* the file is exhausted
AirBankEnd ==
    /\ Pulling("airbank")
    /\ pos = Len(input)
    /\ pc' = "done"
    /\ UNCHANGED <<importer, input, pos, items, year, delim_counter,
                   pending, yielded, qif, err, arg, ret,
                   transaction_data>>

-----------------------------------------------------------------------------
(* RaiffeisenBankImport: a statement is a sequence of lines of text *)

DelimiterWidth == 86

\* delim_counter = 5
DelimCount == 5

header_delimiter == [i \in 1..DelimiterWidth |-> "="]

row_delimiter == [i \in 1..DelimiterWidth |-> "-"]

\* 'Za obdobi '
PeriodPrefix ==
    <<"Z", "a", " ", "o", "b", "d", "o", "b", "i", " ">>

\* the number of digits of t from position i on
DigitRun(t, i) ==
    LET RECURSIVE run(_)
        run(j) == IF j <= Len(t) /\ t[j] \in Digits THEN 1 + run(j + 1) ELSE 0
    IN run(i)

\* period_re.match(row), as the year it captures or None for no match:
\* the prefix, digits, a point, digits, a point, and the digits of the year
period_re(row) ==
    LET a == DigitRun(row, Len(PeriodPrefix) + 1)
        dot1 == Len(PeriodPrefix) + a + 1
        b == DigitRun(row, dot1 + 1)
        dot2 == dot1 + b + 1
        c == DigitRun(row, dot2 + 1)
    IN IF /\ StartsWith(row, PeriodPrefix)
          /\ a >= 1 /\ dot1 <= Len(row) /\ row[dot1] = "."
          /\ b >= 1 /\ dot2 <= Len(row) /\ row[dot2] = "."
          /\ c >= 1
       THEN SubSeq(row, dot2 + 1, dot2 + c)
       ELSE NoneVal

\* the line of the period, and a line that only begins like it
RbPeriodLine ==
    <<"Z", "a", " ", "o", "b", "d", "o", "b", "i", " ", "1", ".", "1", "1",
      ".", "2", "0", "1", "1", "/", "3", "0", ".", "1", "1", ".", "2", "0",
      "1", "1">>

RbNoPeriodLine ==
    <<"Z", "a", " ", "o", "b", "d", "o", "b", "i", " ", "l", "i", "s", "t",
      "o", "p", "a", "d">>

\* the first line of a record: date, text, amount and fee in their columns
RbRecordLine ==
    <<" ", " ", "1", ".", " ", "0", "5", ".", "1", "1", ".", "P", "l", "a",
      "t", "b", "a", " ", "k", "a", "r", "t", "o", "u", " ", " ", " ", " ",
      " ", " ", " ", " ", " ", " ", " ", " ", " ", " ", " ", " ", " ", " ",
      " ", " ", " ", " ", " ", " ", " ", " ", " ", " ", " ", " ", " ", " ",
      " ", " ", " ", " ", " ", " ", " ", " ", " ", " ", " ", " ", " ", "-",
      "1", "2", "3", ".", "4", "5", " ", " ", " ", " ", " ", "-", "5", ".",
      "0", "0">>

\* k header delimiters
RbDelimiters(k) == [i \in 1..k |-> header_delimiter]

\* preambles of up to DelimCount header delimiters, with a line after the
\* first delimiter or without
RbPreambles ==
    {RbDelimiters(k) : k \in 0..DelimCount}
    \cup {<<header_delimiter, l>> \o RbDelimiters(k - 1) :
              k \in 1..DelimCount, l \in {RbPeriodLine, RbNoPeriodLine}}

RbBodies == UNION {[1..k -> {RbRecordLine, row_delimiter}] : k \in 0..MaxLines}

InitRb ==
    /\ importer = "rb"
    /\ input \in {p \o b : p \in RbPreambles, b \in RbBodies}

\* one pass of the loop over the preamble
RbPreambleLine ==
    /\ Pulling("rb")
    /\ delim_counter > 0
    /\ IF pos = Len(input)
       THEN \* next() finds no line: StopIteration inside the generator
            /\ \/ \* Python up to 3.6: the generator ends
                  /\ pc' = "done"
                  /\ UNCHANGED err
               \/ \* Python 3.7 and later (PEP 479)
                  Raise("RuntimeError", 0)
            /\ UNCHANGED <<pos, delim_counter, year>>
       ELSE LET row == input[pos + 1]
            IN /\ pos' = pos + 1
               /\ delim_counter' = IF Strip(row) = header_delimiter
                                   THEN delim_counter - 1 ELSE delim_counter
               /\ year' = IF period_re(row) # NoneVal
                          THEN period_re(row) ELSE year
               /\ UNCHANGED <<pc, err>>
    /\ UNCHANGED <<importer, input, items, pending, yielded, qif, arg, ret,
                   transaction_data>>

\* what TransactionData.__init__ raises for the message it is given: None
\* has no strip
TransactionDataError(message) ==
    IF message = NoneVal THEN "AttributeError" ELSE "none"

\* after the preamble: the year is required, and the first record is
\* constructed with no arguments
RbFirstTransaction ==
    /\ Pulling("rb")
    /\ delim_counter = 0
    /\ IF ~ Truthy(year)
       THEN Raise("ValueError", 0)
       ELSE Raise(TransactionDataError(NoneVal), 0)
    /\ UNCHANGED <<importer, input, pos, items, year, delim_counter,
                   pending, yielded, qif, arg, ret,
                   transaction_data>>

-----------------------------------------------------------------------------
(* The values of the variables a specification does not use *)

NoErr == [type |-> "none", line |-> 0]

IdlePipeline ==
    /\ importer = "none" /\ input = <<>> /\ pos = 0 /\ items = FALSE
    /\ year = NoneVal /\ delim_counter = 0 /\ pending = <<>>
    /\ yielded = <<>> /\ qif = <<>> /\ err = NoErr
    /\ transaction_data = NoneVal

pipelineVars == <<importer, input, pos, items, year, delim_counter, pending,
                  yielded, qif, err, transaction_data>>

\* every text over the characters of S of length at most n
TextsUpTo(S, n) == UNION {[1..k -> S] : k \in 0..n}

-----------------------------------------------------------------------------
(* normalize_num applied to bounded texts: SpecNum *)

NumChars == {"0", "1", ",", ".", "-", " "}

\* "1 234,56" and "1234.56"
SpacedComma == <<"1", " ", "2", "3", "4", ",", "5", "6">>
PlainPoint == <<"1", "2", "3", "4", ".", "5", "6">>

InitNum ==
    /\ IdlePipeline
    /\ arg \in TextsUpTo(NumChars, MaxNumLen) \cup {SpacedComma, PlainPoint}
    /\ ret = NoneNum
    /\ pc = "call"

CallNormalizeNum ==
    /\ pc = "call"
    /\ ret' = normalize_num(arg)
    /\ pc' = "return"
    /\ UNCHANGED <<pipelineVars, arg>>

NextNum == CallNormalizeNum

SpecNum == InitNum /\ [][NextNum]_vars

(* The reference of C10, written character by character: a comma reads as *)
(* the point, a space is dropped.                                          *)
RECURSIVE PlainDecimal(_)
PlainDecimal(t) ==
    IF t = <<>> THEN <<>>
    ELSE IF Head(t) = " " THEN PlainDecimal(Tail(t))
    ELSE IF Head(t) = "," THEN <<".">> \o PlainDecimal(Tail(t))
    ELSE <<Head(t)>> \o PlainDecimal(Tail(t))

\* t is a plain decimal numeral: -?(d+ | d+. | .d+ | d+.d+)
IsDecimal(t) ==
    LET body == IF Len(t) > 0 /\ t[1] = "-" THEN Tail(t) ELSE t
    IN /\ \A i \in 1..Len(body) : body[i] \in Digits \cup {"."}
       /\ Cardinality({i \in 1..Len(body) : body[i] = "."}) <= 1
       /\ \E i \in 1..Len(body) : body[i] \in Digits

\* the value of a plain decimal numeral, times 10^scale, digit by digit
ScaledValue(t, scale) ==
    LET body == IF t[1] = "-" THEN Tail(t) ELSE t
        pts == {i \in 1..Len(body) : body[i] = "."}
        pt == IF pts = {} THEN Len(body) + 1 ELSE SetMin(pts)
        W[i \in 0..Len(body)] ==
            IF i = 0 THEN 0
            ELSE IF i = pt THEN W[i - 1]
            ELSE W[i - 1] + DigitVal(body[i]) *
                   (IF i < pt THEN Pow10(scale + pt - i - 1)
                    ELSE Pow10(scale - (i - pt)))
    IN W[Len(body)]

\* the value of the number n, times 10^scale (scale at least n.e)
Scaled(n, scale) == n.m * Pow10(scale - n.e)

\* the number of digits after the point of a plain decimal numeral
FracDigits(t) ==
    LET pts == {i \in 1..Len(t) : t[i] = "."}
    IN IF pts = {} THEN 0 ELSE Len(t) - SetMin(pts)

(* C10: normalize_num agrees with the reference on every text over the    *)
(* digits, comma, point, minus and space: the result is None exactly when  *)
(* the text holds nothing but spaces (never for a zero), and otherwise it  *)
(* is the value of the plain decimal text got by reading each comma as a   *)
(* point and dropping the spaces (float raises ValueError on both when     *)
(* that text is no numeral); "1 234,56" and "1234.56" both give 1234.56.   *)
C10_NormalizeNumAgrees ==
    pc = "return" =>
        LET plain == PlainDecimal(arg)
        IN /\ (ret.kind = "none") <=> (plain = <<>>)
           /\ (ret.kind = "num") <=> (plain # <<>> /\ IsDecimal(plain))
           /\ ret.kind = "num" =>
                /\ Scaled(ret, FracDigits(plain))
                       = ScaledValue(plain, FracDigits(plain))
                /\ ret.neg = (plain[1] = "-")
           /\ arg \in {SpacedComma, PlainPoint} =>
                ret = [kind |-> "num", neg |-> FALSE, m |-> 123456, e |-> 2]

C10_Witness ==
    /\ pc = "return"
    /\ arg = SpacedComma
    /\ ret.kind = "num"

-----------------------------------------------------------------------------
(* The conversion: an importer chosen by name, drained by write_qif *)

Init ==
    /\ (InitList \/ InitFio \/ InitUnicredit \/ InitZuno \/ InitAirBank
        \/ InitRb)
    /\ pos = 0 /\ pc = "start" /\ items = FALSE
    /\ year = NoneVal
    /\ delim_counter = IF importer = "rb" THEN DelimCount ELSE 0
    /\ pending = <<>> /\ yielded = <<>> /\ qif = <<>> /\ err = NoErr
    /\ arg = <<>> /\ ret = NoneNum
    /\ transaction_data = NoneVal

Next ==
    \/ WriteHeader
    \/ WriteBlock
    \/ ListNext
    \/ ListEnd
    \/ FioFirstLine
    \/ FioNextLine
    \/ FioEnd
    \/ UnicreditNext
    \/ UnicreditEnd
    \/ ZunoNext
    \/ ZunoEnd
    \/ AirBankNext
    \/ AirBankEnd
    \/ RbPreambleLine
    \/ RbFirstTransaction

Spec == Init /\ [][Next]_vars

-----------------------------------------------------------------------------
(* The blocks of the output *)

BlockEnds == {i \in 1..Len(qif) : qif[i] = EndLine}

\* the k-th block of the output: the lines after the previous block's end
\* (after the type line, for the first) up to the k-th end line
BlockOf(k) ==
    SubSeq(qif, IF k = 1 THEN 2 ELSE KthOf(BlockEnds, k - 1) + 1,
           KthOf(BlockEnds, k))

\* the transactions write_qif has written out
Written == SubSeq(yielded, 1, Len(yielded) - Len(pending))

Tags(lines) == [i \in 1..Len(lines) |-> lines[i][1]]

\* the lines of the optional fields that are present, in the fixed order
FieldLines(t) ==
    LET opt(tag, field) ==
            IF field = NoneVal \/ field = <<>> THEN <<>>
            ELSE <<(<<tag>> \o field)>>
    IN opt("#", t.ident) \o opt("M", t.message) \o opt("P", t.destination)

\* the tags of the split lines as C1 states them: a pair for every split
PairTags(t) ==
    IF Len(t.splits) >= 2
    THEN [i \in 1..(2 * Len(t.splits)) |-> IF i % 2 = 1 THEN "E" ELSE "$"]
    ELSE <<>>

\* the tags of the split lines with the E line left out for an empty memo
MemoTags(t) ==
    LET F[i \in 0..Len(t.splits)] ==
            IF i = 0 THEN <<>>
            ELSE F[i - 1]
                 \o (IF t.splits[i].message \in {NoneVal, <<>>}
                     THEN <<"$">> ELSE <<"E", "$">>)
    IN IF Len(t.splits) >= 2 THEN F[Len(t.splits)] ELSE <<>>

\* the output is the type line once, then one block per written transaction,
\* each D, T, the present optional fields, split lines tagged splitTags, ^
OutputShape(splitTags(_)) ==
    /\ pc = "start" => qif = <<>>
    /\ pc # "start" =>
        /\ Len(qif) >= 1 /\ qif[1] = TypeLine
        /\ \A i \in 2..Len(qif) : qif[i] # TypeLine
        /\ Len(qif) > 1 => qif[Len(qif)] = EndLine
        /\ Cardinality(BlockEnds) = Len(Written)
        /\ \A k \in 1..Len(Written) :
            LET t == Written[k]
                b == BlockOf(k)
                f == FieldLines(t)
            IN /\ Len(b) >= 3 + Len(f)
               /\ Tags(SubSeq(b, 1, 2)) = <<"D", "T">>
               /\ SubSeq(b, 3, 2 + Len(f)) = f
               /\ Tags(SubSeq(b, 3 + Len(f), Len(b) - 1)) = splitTags(t)
               /\ b[Len(b)] = EndLine

(* C1 as stated: the output is `!Type:Bank` once, then one block per       *)
(* transaction: D, T, then #, M, P each only for a present field, then an  *)
(* E / $ pair for every split iff there are two or more splits, then ^.    *)
C1_AsStated == OutputShape(PairTags)

(* C1, amended: as above, except that within a transaction of two or more  *)
(* splits every split writes its $ line, and its E line only when its memo *)
(* is present (an absent or empty memo writes no E line).                  *)
C1_OutputShape == OutputShape(MemoTags)

C1_Witness ==
    /\ pc = "done"
    /\ Len(yielded) = 2
    /\ \E k \in 1..2 :
        /\ Len(yielded[k].splits) = 2
        /\ yielded[k].splits[1].message = NoneVal
        /\ yielded[k].splits[2].message # NoneVal
    /\ \E k \in 1..2 :
        /\ yielded[k].splits = <<>>
        /\ yielded[k].ident = NoneVal /\ yielded[k].message = <<>>
        /\ yielded[k].destination = <<"p">>

-----------------------------------------------------------------------------
(* The amounts of a block *)

\* the number written on a T or $ line
LineAmount(line) == ParseFloat(Tail(line))

\* the sum of the numbers on the $ lines of block b
DollarSum(b) ==
    LET F[i \in 0..Len(b)] ==
            IF i = 0 THEN Zero
            ELSE IF b[i][1] = "$" THEN NumAdd(F[i - 1], LineAmount(b[i]))
            ELSE F[i - 1]
    IN F[Len(b)]

\* n is the amount a rounded to 2 decimals: within half a cent of it
RoundedOf(n, a) ==
    LET scale == IF a.e > 2 THEN a.e ELSE 2
        diff == Signed(n, scale) - Signed(a, scale)
    IN /\ n.kind = "num" /\ n.e <= 2
       /\ 2 * diff <= Pow10(scale - 2) /\ -2 * diff <= Pow10(scale - 2)

(* C3 as stated: for a transaction of two or more splits the amount on the *)
(* T line equals the sum of the amounts on the block's $ lines.            *)
C3_AsStated ==
    \A k \in 1..Len(Written) :
        Len(Written[k].splits) >= 2 =>
            NumEq(LineAmount(BlockOf(k)[2]), DollarSum(BlockOf(k)))

(* C3, amended: the amount on the T line is the sum of the unrounded split *)
(* amounts rounded once to 2 decimals when the transaction has splits, and *)
(* the plain amount rounded to 2 decimals when it has none; each $ line is *)
(* its own split amount rounded to 2 decimals, so the T amount need not    *)
(* equal the sum of the $ amounts.                                         *)
C3_TotalRoundedOnce ==
    \A k \in 1..Len(Written) :
        LET t == Written[k]
            b == BlockOf(k)
            dollars == {i \in 1..Len(b) : b[i][1] = "$"}
        IN /\ RoundedOf(LineAmount(b[2]),
                        IF t.splits # <<>> THEN SumAmounts(t.splits)
                        ELSE t.amount)
           /\ Len(t.splits) >= 2 =>
                /\ Cardinality(dollars) = Len(t.splits)
                /\ \A j \in 1..Len(t.splits) :
                      RoundedOf(LineAmount(b[KthOf(dollars, j)]),
                                t.splits[j].amount)

C3_Witness ==
    /\ Len(Written) >= 1
    /\ Len(Written[1].splits) = 2
    /\ ~ NumEq(LineAmount(BlockOf(1)[2]), DollarSum(BlockOf(1)))
    /\ LineAmount(BlockOf(1)[2]) = Canon(FALSE, 1, 2)

-----------------------------------------------------------------------------
(* The fio importer *)

Terminal == pc \in {"done", "error"}

\* the lines after the first that are not tagged 075
Untagged == {n \in 2..Len(input) : input[n].tag # <<"0", "7", "5">>}

FioAccountLineOk == input # <<>> /\ input[1].tag = <<"0", "7", "4">>

\* the framing error naming line n, after exactly the transactions of the
\* lines 2..n-1
FramingErrorAt(n) ==
    /\ pc = "error"
    /\ err = [type |-> "BadRecordTypeException", line |-> n]
    /\ yielded = [k \in 1..(n - 2) |-> FioTransaction(input[k + 1])]

C5_FioAmounts ==
    importer = "fio" =>
        \A k \in 1..Len(yielded) :
            LET line == input[k + 1]
                n == ParseInt(line.amount)
                a == yielded[k].amount
            IN /\ line.ttype \in {"1", "5"} => a = Canon(TRUE, n, 2)
               /\ line.ttype \in {"2", "4"} => a = Canon(FALSE, n, 2)
               /\ (line.ttype = "1" /\ line.amount = Fio150000) =>
                    /\ a = [kind |-> "num", neg |-> TRUE, m |-> 1500, e |-> 0]
                    /\ k <= Len(Written) =>
                         BlockOf(k)[2] = <<"T", "-", "1", "5", "0", "0", ".",
                                           "0", "0">>

C5_Witness ==
    /\ importer = "fio"
    /\ Len(Written) = 2
    /\ input[2].ttype = "1" /\ input[2].amount = Fio150000
    /\ input[3].ttype = "4"

-----------------------------------------------------------------------------
(* The header-sniff importers *)

Sniffers == {"unicredit", "zuno"}

\* the rows whose first cell is the header caption of the importer
HeaderRows ==
    {i \in 1..Len(input) :
        /\ Len(input[i]) > 0
        /\ input[i][1] = (IF importer = "zuno" THEN ZunoCaption
                          ELSE UnicreditCaption)}

\* the completely blank rows after row h
BlankRowsAfter(h) == {i \in (h + 1)..Len(input) : input[i] = <<>>}

SniffTransaction(row) ==
    IF importer = "zuno" THEN ZunoTransaction(row)
    ELSE UnicreditTransaction(row)

-----------------------------------------------------------------------------
(* The destination of a unicredit row, applied to bounded rows: SpecDest *)

\* a row like UnicreditCard with the account number and the details given
DetailRow(account, details) ==
    [i \in 1..(LastDetail + 1) |->
        IF i = 9 THEN account
        ELSE IF i >= FirstDetail + 1 THEN details[i - FirstDetail]
        ELSE UnicreditCard[i]]

\* account numbers: none, blank, one
DestAccounts == {<<>>, <<" ">>, <<"1", "2", "3">>}

\* type labels: the card payment, the card payment behind a space, another
DestLabels == {CardPayment, <<" ">> \o CardPayment, <<"P", "R", "E", "V", "O", "D">>}

\* a detail: empty, empty once normalized, a text
DestDetails == {<<>>, <<" ", "\"">>, <<"E", "S", "H", "O", "P">>, <<"4", "5">>}

InitDest ==
    /\ IdlePipeline
    /\ \E account \in DestAccounts, label \in DestLabels,
          rest \in [1..(LastDetail - FirstDetail) -> DestDetails] :
          arg = DetailRow(account, <<label>> \o rest)
    /\ ret = NoneVal
    /\ pc = "call"

CallUnicreditDest ==
    /\ pc = "call"
    /\ ret' = UnicreditDest(arg)
    /\ pc' = "return"
    /\ UNCHANGED <<pipelineVars, arg>>

NextDest == CallUnicreditDest

SpecDest == InitDest /\ [][NextDest]_vars

\* the detail columns of the row that are not empty once normalized
FilledDetails(row) ==
    {i \in FirstDetail..LastDetail : normalize_field(Cell(row, i)) # <<>>}

(* C9: for a unicredit row whose type label (column 13, stripped) is the   *)
(* card-payment caption and whose account number (column 8) is empty once  *)
(* normalized, the destination is the normalized value of the last column  *)
(* in 13..18 that is not empty once normalized; a row with an account      *)
(* number has the destination made of its account columns, and a row with  *)
(* no account number and another type label has no destination.            *)
C9_DestinationFallback ==
    pc = "return" =>
        LET account == normalize_field(Cell(arg, 8))
            label == Strip(Cell(arg, 13))
        IN /\ (label = CardPayment /\ account = <<>>) =>
                /\ FilledDetails(arg) # {}
                /\ ret = normalize_field(Cell(arg, SetMax(FilledDetails(arg))))
           /\ account # <<>> =>
                ret = Strip(normalize_field(Cell(arg, 6)) \o <<" ">>
                            \o normalize_field(Cell(arg, 7)))
                      \o <<":", " ">> \o account \o <<"/">> \o Cell(arg, 5)
                      \o <<" ">> \o normalize_field(Cell(arg, 9))
           /\ (label # CardPayment /\ account = <<>>) => ret = NoneVal

C9_Witness ==
    /\ pc = "return"
    /\ Cell(arg, 8) = <<" ">>
    /\ Cell(arg, 13) = CardPayment
    /\ Cell(arg, 15) = <<"4", "5">>
    /\ Cell(arg, 16) = <<"E", "S", "H", "O", "P">>
    /\ Cell(arg, 17) = <<" ", "\"">>
    /\ Cell(arg, 18) = <<>>
    /\ ret = <<"E", "S", "H", "O", "P">>

-----------------------------------------------------------------------------
(* The header-line translation importers *)

Headlines == {i \in 1..Len(input) : IsHeadline(input[i])}

\* the empty lines after line h
EmptyLinesAfter(h) == {i \in (h + 1)..Len(input) : input[i] = <<>>}

(* C7: with dirty_csv_iterator the lines before the header line are        *)
(* skipped, the header cells are translated to the canonical field names,  *)
(* and the first blank line after the header ends the import normally (the *)
(* end of the sequence, not an error) with exactly one transaction for     *)
(* each data row between the header and the blank line and none for any    *)
(* later line.                                                             *)
C7_BlankLineEndsImport ==
    (importer = "airbank" /\ Headlines # {}) =>
        LET h == SetMin(Headlines)
            empty == EmptyLinesAfter(h)
        IN /\ pos <= h => (yielded = <<>> /\ pc # "error")
           /\ \A k \in 1..Len(yielded) :
                 /\ h + k <= pos
                 /\ yielded[k].amount
                      = normalize_num(input[h + k][3])
                 /\ yielded[k].message = ComposedMessage(input[h + k])
           /\ empty # {} =>
                 /\ pos <= SetMin(empty)
                 /\ pos = SetMin(empty) =>
                       /\ pc = "done" /\ err = NoErr
                       /\ Len(yielded) = SetMin(empty) - h - 1

-----------------------------------------------------------------------------
(* The delimiter-block importer *)

\* the lines that are header delimiters
HeaderDelimiters == {i \in 1..Len(input) : Strip(input[i]) = header_delimiter}

\* the last line of the preamble: the DelimCount-th header delimiter
PreambleEnd == KthOf(HeaderDelimiters, DelimCount)

\* the preamble names the year
PreambleYear == \E i \in 1..PreambleEnd : period_re(input[i]) # NoneVal

\* the lines after the preamble
RbBody == SubSeq(input, PreambleEnd + 1, Len(input))

\* the body is a run of record blocks: lines of a record and then a row
\* delimiter, once or more
RecordBlocks ==
    /\ RbBody # <<>>
    /\ RbBody[1] # row_delimiter
    /\ RbBody[Len(RbBody)] = row_delimiter
    /\ \A i \in 1..(Len(RbBody) - 1) :
          ~ (RbBody[i] = row_delimiter /\ RbBody[i + 1] = row_delimiter)

(* C8: a statement whose preamble contains the year and is followed by N   *)
(* record blocks, each ended by a row delimiter, yields exactly N          *)
(* transactions; a preamble without the year fails fatally with no         *)
(* transaction.                                                            *)
C8_DelimiterBlocks ==
    (/\ importer = "rb" /\ Terminal
     /\ Cardinality(HeaderDelimiters) >= DelimCount) =>
        /\ (PreambleYear /\ RecordBlocks) =>
              /\ pc = "done"
              /\ Len(yielded)
                   = Cardinality({i \in 1..Len(RbBody) :
                                      RbBody[i] = row_delimiter})
        /\ ~ PreambleYear =>
              /\ pc = "error" /\ err.type = "ValueError"
              /\ yielded = <<>>

-----------------------------------------------------------------------------
(* The order of the output *)

\* the line of the input before its first record
RecordBase ==
    CASE importer = "transactions" -> 0
      [] importer = "fio" -> 1
      [] importer \in Sniffers -> SetMin(HeaderRows)
      [] importer = "airbank" -> SetMin(Headlines)

\* the transaction of a record of the input
RecordTransaction(record) ==
    CASE importer = "transactions" -> record
      [] importer = "fio" -> FioTransaction(record)
      [] importer \in Sniffers -> SniffTransaction(record)
      [] importer = "airbank" -> RowTransaction(record)

-----------------------------------------------------------------------------
(* normalize_field applied to bounded texts, and to its own result:        *)
(* SpecField                                                               *)

MaxFieldLen == 3

\* the curly quotation marks U+201C and U+201D, each one character of a text
CurlyQuotes == {"ldquo", "rdquo"}

StraightQuotes == {"\"", "'"}

FieldChars == {"a", " ", "\t", "\"", "'", "ldquo"}

\* 'a \n "b" ' with a newline in the run of whitespace
QuotedWord == <<"a", " ", "\n", " ", "\"", "b", "\"", " ">>

InitField ==
    /\ IdlePipeline
    /\ arg \in TextsUpTo(FieldChars, MaxFieldLen) \cup {QuotedWord}
    /\ ret = NoneVal
    /\ pc = "call"

CallNormalizeField ==
    /\ pc = "call"
    /\ ret' = normalize_field(arg)
    /\ pc' = "return"
    /\ UNCHANGED <<pipelineVars, arg>>

\* the result is normalized once more
CallNormalizeFieldAgain ==
    /\ pc = "return"
    /\ arg' = ret
    /\ ret' = normalize_field(ret)
    /\ pc' = "again"
    /\ UNCHANGED pipelineVars

NextField == CallNormalizeField \/ CallNormalizeFieldAgain

SpecField == InitField /\ [][NextField]_vars

(* C11: the result of normalize_field holds no straight or curly quote, no *)
(* whitespace at its start or end and no two whitespace characters in a    *)
(* row, and normalizing the result again returns it unchanged.             *)
C11_NormalizeField ==
    /\ pc \in {"return", "again"} =>
          /\ \A i \in 1..Len(ret) :
                ret[i] \notin StraightQuotes \cup CurlyQuotes
          /\ ret # <<>> =>
                (ret[1] \notin Whitespace /\ ret[Len(ret)] \notin Whitespace)
          /\ \A i \in 1..(Len(ret) - 1) :
                ~ (ret[i] \in Whitespace /\ ret[i + 1] \in Whitespace)
    /\ pc = "again" => ret = arg

-----------------------------------------------------------------------------
(* CsobImport.dirty_line_iterator drained to its end: SpecCsob.  A line is *)
(* its text without the newline that ends it.                              *)

MaxCsobLines == 4

\* headline_start = 'datum zauctovani'
CsobHeadline ==
    <<"d", "a", "t", "u", "m", " ", "z", "a", "u", "c", "t", "o", "v", "a",
      "n", "i">>

CsobAmount == <<"c", "a", "s", "t", "k", "a">>

\* field_translation.get(key, key), for the captions the lines of the model
\* use
CsobTranslation(key) ==
    CASE key = CsobHeadline -> FieldDate
      [] key = CsobAmount -> FieldAmount
      [] OTHER -> key

\* the first line of a transaction, its amount, a line with a key that has
\* no translation, and a line with no colon
CsobDateLine ==
    <<"d", "a", "t", "u", "m", " ", "z", "a", "u", "c", "t", "o", "v", "a",
      "n", "i", ":", " ", "0", "5", ".", "1", "1", ".", "2", "0", "1", "1">>

CsobAmountLine ==
    <<"c", "a", "s", "t", "k", "a", ":", " ", "-", "1", "2", ",", "5", "0">>

CsobCurrencyLine ==
    <<"m", "e", "n", "a", ":", " ", "C", "Z", "K">>

CsobTitleLine == <<"V", "y", "p", "i", "s">>

CsobLines ==
    {CsobDateLine, CsobAmountLine, CsobCurrencyLine, CsobTitleLine, <<>>}

InitCsob ==
    /\ importer = "csob"
    /\ input \in UNION {[1..k -> CsobLines] : k \in 0..MaxCsobLines}
    /\ pos = 0 /\ pc = "pull" /\ items = FALSE
    /\ year = NoneVal /\ delim_counter = 0
    /\ pending = <<>> /\ yielded = <<>> /\ qif = <<>> /\ err = NoErr
    /\ arg = <<>> /\ ret = NoneNum
    /\ transaction_data = NoneVal

\* re.match(r'^\s+$', line): the line, with its newline, is whitespace only
IsBlankLine(line) == \A i \in 1..Len(line) : line[i] \in Whitespace

\* d[key] = value: a new key goes last, a key already there keeps its place
DictSet(d, key, value) ==
    IF \E i \in 1..Len(d) : d[i][1] = key
    THEN [i \in 1..Len(d) |-> IF d[i][1] = key THEN <<key, value>> ELSE d[i]]
    ELSE Append(d, <<key, value>>)

\* the record with the key and the value of the line put in
Capture(d, line) ==
    LET kv_pair == Split(line, ":")
    IN DictSet(d, CsobTranslation(Strip(kv_pair[1])), Strip(kv_pair[2]))

\* one turn of the loop over the lines
CsobLine ==
    /\ importer = "csob" /\ pc = "pull"
    /\ pos < Len(input)
    /\ pos' = pos + 1
    /\ LET line == input[pos + 1]
           data == IF StartsWith(line, CsobHeadline) THEN <<>>
                   ELSE transaction_data
       IN IF data = NoneVal
          THEN UNCHANGED <<transaction_data, yielded, pc, err>>
          ELSE IF IsBlankLine(line)
          THEN /\ yielded' = Append(yielded, data)
               /\ transaction_data' = NoneVal
               /\ UNCHANGED <<pc, err>>
          ELSE IF Len(Split(line, ":")) < 2
          THEN \* kv_pair[1] of a line without a colon
               /\ Raise("IndexError", pos + 1)
               /\ transaction_data' = data
               /\ UNCHANGED yielded
          ELSE /\ transaction_data' = Capture(data, line)
               /\ UNCHANGED <<yielded, pc, err>>
    /\ UNCHANGED <<importer, input, items, year, delim_counter, pending, qif,
                   arg, ret>>

\* the file is exhausted: the loop and the generator end
CsobEnd ==
    /\ importer = "csob" /\ pc = "pull"
    /\ pos = Len(input)
    /\ pc' = "done"
    /\ UNCHANGED <<importer, input, pos, items, year, delim_counter,
                   pending, yielded, qif, err, arg, ret, transaction_data>>

NextCsob == CsobLine \/ CsobEnd

SpecCsob == InitCsob /\ [][NextCsob]_vars

\* a `key: value` line
KeyValueLine(line) == ~ IsBlankLine(line) /\ Len(Split(line, ":")) >= 2

\* the lines that start a block
BlockStarts ==
    {i \in 1..Len(input) :
        StartsWith(input[i], CsobHeadline) /\ KeyValueLine(input[i])}

\* the last line of the block started at line i: the run of key: value
\* lines goes on to the line before the next start, the first line of
\* another kind, or the end of the input
BlockLast(i) ==
    SetMax({j \in i..Len(input) :
               \A n \in (i + 1)..j :
                   KeyValueLine(input[n]) /\ n \notin BlockStarts})

\* the keyed record of the block started at line i
BlockRecord(i) ==
    LET F[j \in (i - 1)..BlockLast(i)] ==
            IF j = i - 1 THEN <<>> ELSE Capture(F[j - 1], input[j])
    IN F[BlockLast(i)]

(* C12: when the input has been read to its end, the records yielded are   *)
(* the keyed records of the blocks started in the input, one for each      *)
(* block and in input order, whether the block is ended by a               *)
(* whitespace-only line or by the end of the input; lines outside the      *)
(* blocks give no record.                                                  *)
C12_OneRecordPerBlock ==
    (importer = "csob" /\ pc = "done") =>
        /\ Len(yielded) = Cardinality(BlockStarts)
        /\ \A k \in 1..Len(yielded) :
              yielded[k] = BlockRecord(KthOf(BlockStarts, k))

=============================================================================
